---- MODULE Spec2Model ----
(***************************************************************************)
(* Registration validation and subscription derivation of                  *)
(* hellomama-registration: ValidateRegistration (registrations/tasks.py).  *)
(*                                                                         *)
(* Python values are modelled as follows.                                  *)
(*   - identifiers and date strings: sequences of one-character strings,   *)
(*     so that len(), indexing and %Y%m%d parsing are computed;            *)
(*   - enumeration-like strings (language, msg_type, ...): TLA+ strings;   *)
(*   - registration.data: a function whose DOMAIN is the set of keys       *)
(*     present in the mapping;                                             *)
(*   - data["invalid_fields"]: [type |-> "str", value |-> reason] or       *)
(*     [type |-> "list", value |-> set of entries]; check_field_values     *)
(*     iterates list(set(...)), whose order Python leaves unspecified, and *)
(*     every field contributes at most one entry, so the list is kept as   *)
(*     the set of its entries.                                             *)
(***************************************************************************)
EXTENDS Integers, Sequences, FiniteSets, TLC

(***************************************************************************)
(* Bounds of the model.                                                    *)
(***************************************************************************)
\* how many times the task is run on the registration
MaxRuns == 2
\* how many keys of the full data mapping an input registration may lack
MaxMissing == 1

(***************************************************************************)
(* Settings (hellomama_registration/settings.py).                          *)
(***************************************************************************)
PREBIRTH_MIN_WEEKS == 10
PREBIRTH_MAX_WEEKS == 42
POSTBIRTH_MIN_WEEKS == 0
POSTBIRTH_MAX_WEEKS == 52
LANGUAGES == {"eng_NG", "hau_NG", "ibo_NG", "yor_NG", "pcm_NG"}
MSG_TYPES == {"text", "audio"}
RECEIVER_TYPES ==
    {"mother_father", "mother_only", "father_only", "mother_family",
     "mother_friend", "friend_only", "family_only"}

(***************************************************************************)
(* Identifiers: character sequences.  MkId(tag, n, c14, c19) is a string   *)
(* of n characters starting with tag, with c14 at offset 14 and c19 at     *)
(* offset 19 (0-based, where the string is long enough).                   *)
(***************************************************************************)
MkId(tag, n, c14, c19) ==
    [i \in 1..n |-> IF i = 1 THEN tag
                    ELSE IF i = 15 THEN c14
                    ELSE IF i = 20 THEN c19
                    ELSE IF i \in {9, 14, 19, 24} THEN "-" ELSE "0"]

\* "mother00-9d89-4aa6-99ff-13c225365b5d" of the tests: '4' at 14, '9' at 19
MOTHER_ID == MkId("m", 36, "4", "9")
\* "friend00-73a2-4d89-b045-d52004c025fe": '4' at 14, 'b' at 19
FRIEND_ID == MkId("f", 36, "4", "b")
\* "nurse000-6a07-4377-a4f6-c0485ccba234": '4' at 14, 'a' at 19
NURSE_ID == MkId("n", 36, "4", "a")
\* "mother00-9d89-4aa6-99ff-13c225365b5" of the tests: 35 characters
SHORT_MOTHER_ID == MkId("m", 35, "4", "9")
\* 36 characters but version digit 1
BAD_ID == MkId("x", 36, "1", "a")

\* mutant of is_valid_uuid: the length is not checked
is_valid_uuid_any_length(id) ==
    /\ Len(id) >= 20
    /\ id[15] = "4"
    /\ id[20] \in {"a", "b", "8", "9"}

\* mutant of is_valid_uuid: the character at offset 19 is not checked
is_valid_uuid_any_variant(id) ==
    /\ Len(id) = 36
    /\ id[15] = "4"

\* tasks.py:32  len(id) == 36 and id[14] == '4' and id[19] in [a, b, 8, 9]
is_valid_uuid(id) ==
    /\ Len(id) = 36
    /\ id[15] = "4"
    /\ id[20] \in {"a", "b", "8", "9"}

is_valid_lang(lang) == lang \in LANGUAGES

is_valid_msg_type(msg_type) == msg_type \in MSG_TYPES

is_valid_msg_receiver(msg_receiver) == msg_receiver \in RECEIVER_TYPES

is_valid_loss_reason(loss_reason) ==
    loss_reason \in {"miscarriage", "stillborn", "baby_died"}

(***************************************************************************)
(* Dates.  A date string is a sequence of characters; a datetime is a      *)
(* record [y, m, d].                                                       *)
(***************************************************************************)
Digits == {"0", "1", "2", "3", "4", "5", "6", "7", "8", "9"}

DigitVal(c) ==
    CASE c = "0" -> 0 [] c = "1" -> 1 [] c = "2" -> 2 [] c = "3" -> 3
      [] c = "4" -> 4 [] c = "5" -> 5 [] c = "6" -> 6 [] c = "7" -> 7
      [] c = "8" -> 8 [] c = "9" -> 9

DigitChar(n) ==
    CASE n = 0 -> "0" [] n = 1 -> "1" [] n = 2 -> "2" [] n = 3 -> "3"
      [] n = 4 -> "4" [] n = 5 -> "5" [] n = 6 -> "6" [] n = 7 -> "7"
      [] n = 8 -> "8" [] n = 9 -> "9"

\* strftime("%Y%m%d") of the date y-m-d
DateStr(y, m, d) ==
    << DigitChar(y \div 1000), DigitChar((y \div 100) % 10),
       DigitChar((y \div 10) % 10), DigitChar(y % 10),
       DigitChar(m \div 10), DigitChar(m % 10),
       DigitChar(d \div 10), DigitChar(d % 10) >>

IsLeap(y) == (y % 4 = 0 /\ y % 100 # 0) \/ y % 400 = 0

DaysInMonth(y, m) ==
    IF m = 2 THEN (IF IsLeap(y) THEN 29 ELSE 28)
    ELSE IF m \in {4, 6, 9, 11} THEN 30 ELSE 31

\* the fields strptime(s, "%Y%m%d") reads from an 8-digit string
ParseDate(s) ==
    [y |-> 1000 * DigitVal(s[1]) + 100 * DigitVal(s[2])
             + 10 * DigitVal(s[3]) + DigitVal(s[4]),
     m |-> 10 * DigitVal(s[5]) + DigitVal(s[6]),
     d |-> 10 * DigitVal(s[7]) + DigitVal(s[8])]

\* tasks.py:24  strptime succeeds.  The date strings of this model are
\* digit strings of 7 or 8 characters; of those strptime accepts exactly
\* the 8-character ones that name a day of the calendar.
\* the parsed fields name a day of the calendar (datetime's own check)
is_calendar_day(p) ==
    /\ p.y >= 1
    /\ p.m \in 1..12
    /\ p.d >= 1
    /\ p.d <= DaysInMonth(p.y, p.m)

is_valid_date(date) ==
    /\ Len(date) = 8
    /\ \A i \in 1..8 : date[i] \in Digits
    /\ is_calendar_day(ParseDate(date))

\* days since the civil epoch of the proleptic Gregorian date (date.toordinal)
RECURSIVE DaysBeforeMonth(_, _)
DaysBeforeMonth(y, m) ==
    IF m = 1 THEN 0 ELSE DaysBeforeMonth(y, m - 1) + DaysInMonth(y, m - 1)

Ordinal(dt) ==
    LET y1 == dt.y - 1
    IN  365 * y1 + (y1 \div 4) - (y1 \div 100) + (y1 \div 400)
          + DaysBeforeMonth(dt.y, dt.m) + dt.d

\* utils.calc_pregnancy_week_lmp(today, lmp)
\* "1 week pregnant" is reported as 2
promote_week(preg_weeks) == IF preg_weeks = 1 THEN 2 ELSE preg_weeks

calc_pregnancy_week_lmp(t, lmp) ==
    promote_week((Ordinal(t) - Ordinal(ParseDate(lmp))) \div 7)

\* utils.calc_baby_age(today, baby_dob)
age_weeks(days) == IF days < 0 THEN -1 ELSE days \div 7

calc_baby_age(t, baby_dob) ==
    age_weeks(Ordinal(t) - Ordinal(ParseDate(baby_dob)))

(***************************************************************************)
(* registration.data: helpers for the mapping.                             *)
(***************************************************************************)
Has(data, k) == k \in DOMAIN data

\* data[k] = v
Put(data, k, v) ==
    [x \in (DOMAIN data) \cup {k} |-> IF x = k THEN v ELSE data[x]]

\* the mapping without the keys ks
Without(data, ks) == [x \in (DOMAIN data) \ ks |-> data[x]]

StrReason(s) == [type |-> "str", value |-> s]
ListReason(entries) == [type |-> "list", value |-> entries]

(***************************************************************************)
(* ValidateRegistration.check_field_values (tasks.py:66-101).              *)
(* FieldFailures is the body of the loop for one field: the entries that   *)
(* field appends to failures.                                              *)
(***************************************************************************)
\* mutant of in_weeks: the bounds are exclusive
in_weeks_exclusive(lo, weeks, hi) == lo < weeks /\ weeks < hi

\* lo <= weeks <= hi (a chained comparison evaluates weeks once)
in_weeks(lo, weeks, hi) == lo <= weeks /\ weeks <= hi

FieldFailures(field, registration_data, t) ==
    CASE field \in {"receiver_id", "operator_id"} ->
            IF ~is_valid_uuid(registration_data[field]) THEN {field} ELSE {}
      [] field = "language" ->
            IF ~is_valid_lang(registration_data[field]) THEN {field} ELSE {}
      [] field = "msg_type" ->
            IF ~is_valid_msg_type(registration_data[field])
            THEN {field} ELSE {}
      [] field = "last_period_date" ->
            IF ~is_valid_date(registration_data[field]) THEN {field}
            ELSE IF ~in_weeks(PREBIRTH_MIN_WEEKS,
                       calc_pregnancy_week_lmp(t, registration_data[field]),
                       PREBIRTH_MAX_WEEKS)
                 THEN {"last_period_date out of range"} ELSE {}
      [] field = "baby_dob" ->
            IF ~is_valid_date(registration_data[field]) THEN {field}
            ELSE IF ~in_weeks(POSTBIRTH_MIN_WEEKS,
                       calc_baby_age(t, registration_data[field]),
                       POSTBIRTH_MAX_WEEKS)
                 THEN {"baby_dob out of range"} ELSE {}
      [] field = "msg_receiver" ->
            IF ~is_valid_msg_receiver(registration_data[field])
            THEN {field} ELSE {}
      [] field = "loss_reason" ->
            IF ~is_valid_loss_reason(registration_data[field])
            THEN {field} ELSE {}
      [] OTHER -> {}

\* mutant of check_field_values: returns at the first failure
check_field_values_first_failure(fields, registration_data, t) ==
    IF \A f \in fields : FieldFailures(f, registration_data, t) = {}
    THEN {}
    ELSE {CHOOSE e \in UNION {FieldFailures(f, registration_data, t) :
                                 f \in fields} : TRUE}

check_field_values(fields, registration_data, t) ==
    UNION {FieldFailures(f, registration_data, t) : f \in fields}

(***************************************************************************)
(* ValidateRegistration.validate (tasks.py:103-196).                       *)
(* The result records the in-memory registration after the call, the       *)
(* sequence of records written by registration.save(), the return value,   *)
(* the exception raised ("" when the call returns) and whether the         *)
(* assignment registration.validated = True was executed.                  *)
(***************************************************************************)
fields_general == {"receiver_id", "operator_id", "language", "msg_type"}
fields_prebirth == {"last_period_date", "msg_receiver"}
fields_postbirth == {"baby_dob", "msg_receiver"}
fields_loss == {"loss_reason"}
hw_pre == fields_general \cup fields_prebirth
hw_post == fields_general \cup fields_postbirth
pbl_loss == fields_general \cup fields_loss

ONLY_RECEIVERS == {"father_only", "friend_only", "family_only"}

\* a branch that writes data["invalid_fields"], saves and returns False
Reject(registration, reason) ==
    [registration |->
         [registration EXCEPT
             !.data = Put(registration.data, "invalid_fields", reason)],
     saved |->
         << [registration EXCEPT
                !.data = Put(registration.data, "invalid_fields", reason)] >>,
     ret |-> FALSE, error |-> "", set_validated |-> FALSE]

\* a branch that writes the outputs, sets validated, saves and returns True
Accept(registration, outputs) ==
    [registration |->
         [registration EXCEPT !.data = outputs, !.validated = TRUE],
     saved |-> << [registration EXCEPT !.data = outputs, !.validated = TRUE] >>,
     ret |-> TRUE, error |-> "", set_validated |-> TRUE]

\* an exception leaves the call before any write or save
Raise(registration, exc) ==
    [registration |-> registration, saved |-> <<>>, ret |-> FALSE,
     error |-> exc, set_validated |-> FALSE]

\* tasks.py:142-145, 161-163, 178-180: the conditions of the if / elif
\* chain, in order; "" when none holds
matched_rule(registration) ==
    IF /\ registration.stage = "prebirth"
       /\ registration.authority \in {"hw_limited", "hw_full"}
       /\ hw_pre \subseteq DOMAIN registration.data
    THEN "hw_pre"
    ELSE IF /\ registration.stage = "postbirth"
            /\ registration.authority \in {"hw_limited", "hw_full"}
            /\ hw_post \subseteq DOMAIN registration.data
    THEN "hw_post"
    ELSE IF /\ registration.stage = "loss"
            /\ registration.authority \in {"patient", "advisor"}
            /\ pbl_loss \subseteq DOMAIN registration.data
    THEN "pbl_loss"
    ELSE ""

rule_fields(reg_type) ==
    CASE reg_type = "hw_pre" -> hw_pre
      [] reg_type = "hw_post" -> hw_post
      [] reg_type = "pbl_loss" -> pbl_loss

\* mutant of rule_outputs: the postbirth branch writes preg_week
rule_outputs_preg_week(reg_type, data, t) ==
    CASE reg_type = "hw_pre" ->
            Put(Put(data, "reg_type", "hw_pre"), "preg_week",
                calc_pregnancy_week_lmp(t, data["last_period_date"]))
      [] reg_type = "hw_post" ->
            Put(Put(data, "reg_type", "hw_post"), "preg_week",
                calc_baby_age(t, data["baby_dob"]))
      [] reg_type = "pbl_loss" -> Put(data, "reg_type", "pbl_loss")

\* tasks.py:150-152, 167-169, 184: the outputs written on success
rule_outputs(reg_type, data, t) ==
    CASE reg_type = "hw_pre" ->
            Put(Put(data, "reg_type", "hw_pre"), "preg_week",
                calc_pregnancy_week_lmp(t, data["last_period_date"]))
      [] reg_type = "hw_post" ->
            Put(Put(data, "reg_type", "hw_post"), "baby_age",
                calc_baby_age(t, data["baby_dob"]))
      [] reg_type = "pbl_loss" -> Put(data, "reg_type", "pbl_loss")

\* the body of a matched branch, given the list check_field_values returned
rule_body(registration, reg_type, invalid_fields, t) ==
    IF invalid_fields = {}
    THEN Accept(registration, rule_outputs(reg_type, registration.data, t))
    ELSE Reject(registration, ListReason(invalid_fields))

\* tasks.py:142-196: the stage / authority / required-fields dispatch
validate_rules(registration, reg_type, t) ==
    IF reg_type = ""
    THEN Reject(registration, StrReason("Invalid combination of fields"))
    ELSE rule_body(registration, reg_type,
                   check_field_values(rule_fields(reg_type),
                                      registration.data, t),
                   t)

\* mutant of receiver_check: family_only is missing from the list
receiver_check_no_family(mother_id, data) ==
    IF ~Has(data, "msg_receiver") THEN ""
    ELSE IF data["msg_receiver"] \in {"father_only", "friend_only"}
         THEN (IF ~Has(data, "receiver_id") THEN "KeyError"
               ELSE IF mother_id = data["receiver_id"]
                    THEN "mother requires own id" ELSE "")
    ELSE IF data["msg_receiver"] = "mother_only"
         THEN (IF ~Has(data, "receiver_id") THEN "KeyError"
               ELSE IF mother_id # data["receiver_id"]
                    THEN "mother_id should be the same as receiver_id"
                    ELSE "")
    ELSE ""

\* tasks.py:124-140: the mother_id / receiver_id cross-field checks: the
\* reason of the rejection, "KeyError" when data["receiver_id"] is read
\* and absent, "" when the checks pass
receiver_check(mother_id, data) ==
    IF ~Has(data, "msg_receiver") THEN ""
    ELSE IF data["msg_receiver"] \in ONLY_RECEIVERS
         THEN (IF ~Has(data, "receiver_id") THEN "KeyError"
               ELSE IF mother_id = data["receiver_id"]
                    THEN "mother requires own id" ELSE "")
    ELSE IF data["msg_receiver"] = "mother_only"
         THEN (IF ~Has(data, "receiver_id") THEN "KeyError"
               ELSE IF mother_id # data["receiver_id"]
                    THEN "mother_id should be the same as receiver_id"
                    ELSE "")
    ELSE ""

\* mutant of validate_receiver: the rule table is consulted before the
\* identity checks
validate_receiver_rules_first(registration, check, t) ==
    IF matched_rule(registration) = ""
    THEN Reject(registration, StrReason("Invalid combination of fields"))
    ELSE IF check = "KeyError" THEN Raise(registration, "KeyError")
    ELSE IF check # "" THEN Reject(registration, StrReason(check))
    ELSE validate_rules(registration, matched_rule(registration), t)

\* tasks.py:124-196: the identity checks, then the rule table
validate_receiver(registration, check, t) ==
    IF check = "KeyError" THEN Raise(registration, "KeyError")
    ELSE IF check # "" THEN Reject(registration, StrReason(check))
    ELSE validate_rules(registration, matched_rule(registration), t)

validate(registration, t) ==
    IF ~is_valid_uuid(registration.mother_id)
    THEN Reject(registration, StrReason("Invalid UUID mother_id"))
    ELSE validate_receiver(registration,
             receiver_check(registration.mother_id, registration.data), t)

(***************************************************************************)
(* Collaborators of create_subscriptionrequests that live in               *)
(* registrations/models.py and hellomama_registration/utils.py.            *)
(***************************************************************************)
None == "None"

\* Registration.get_voice_days_and_times
get_voice_days_and_times(registration) ==
    LET data == registration.data
    IN  << IF Has(data, "voice_days") THEN data["voice_days"] ELSE None,
           IF Has(data, "voice_times") THEN data["voice_times"] ELSE None >>

\* Registration.get_weeks_pregnant_or_age: the week value of the stage
get_weeks_pregnant_or_age(registration) ==
    LET data == registration.data
    IN  IF registration.stage = "prebirth" /\ Has(data, "preg_week")
        THEN data["preg_week"]
        ELSE IF registration.stage = "postbirth" /\ Has(data, "baby_age")
        THEN data["baby_age"]
        ELSE 0

\* utils.get_messageset_short_name: the dot-delimited short name, kept as
\* the sequence of its components
get_messageset_short_name(stage, recipient, msg_type, weeks, voice_days, voice_times) ==
    LET subtype == IF recipient = "household" THEN "audio" ELSE msg_type
        week_range ==
            IF stage = "prebirth" THEN "10_42"
            ELSE IF stage = "postbirth"
                 THEN (IF 0 <= weeks /\ weeks <= 12 THEN "0_12"
                       ELSE IF 13 <= weeks /\ weeks <= 52 THEN "13_52"
                       ELSE None)
            ELSE "0_2"
    IN  IF subtype = "audio"
        THEN <<stage, recipient, subtype, week_range, voice_days, voice_times>>
        ELSE <<stage, recipient, subtype, week_range>>

\* the schedule service: days of the week of the default schedule of a
\* message set (mother text "1,3,5"; mother audio the two voice days;
\* household "5")
days_of_week(short_name) ==
    IF short_name[2] = "household" THEN {5}
    ELSE IF short_name[3] = "audio"
         THEN (IF short_name[5] = "tue_thu" THEN {2, 4} ELSE {1, 3})
    ELSE {1, 3, 5}

\* baseline cadence of the sequence computation
BASELINE_CADENCE == 3

\* the sequence number the specification describes: elapsed weeks scaled
\* by cadence / baseline, rounded down, measured from week 0
baseline_sequence(weeks, msgs_per_week) ==
    (weeks * msgs_per_week) \div BASELINE_CADENCE

\* mutant of prebirth_sequence: the baseline scaling is used for prebirth
\* streams too
prebirth_sequence_baseline(weeks, msgs_per_week) ==
    (weeks * msgs_per_week) \div BASELINE_CADENCE

\* the sequence number of a prebirth stream, as the subscription tests
\* fix it (tests.py:1113-1747): (15, "1,3,5") -> 15, (15, "2,4") -> 10,
\* (15, "5") -> 5, (30, "1,3,5") -> 60, (30, "5") -> 20,
\* (40, "1,3,5") -> 90, (40, "5") -> 30
prebirth_sequence(weeks, msgs_per_week) ==
    msgs_per_week * (weeks - PREBIRTH_MIN_WEEKS)

\* utils.get_messageset_schedule_sequence, after both lookups succeeded:
\* (messageset id, schedule id, next_sequence_number)
get_messageset_schedule_sequence(short_name, weeks) ==
    LET days == days_of_week(short_name)
    IN  [messageset |-> short_name,
         schedule |-> days,
         next_sequence_number |->
             IF short_name[1] = "prebirth"
             THEN prebirth_sequence(weeks, Cardinality(days))
             ELSE baseline_sequence(weeks, Cardinality(days))]

MOTHER_WELCOME_TEXT_NG_ENG == "Welcome to HelloMama"

(***************************************************************************)
(* ValidateRegistration.create_subscriptionrequests (tasks.py:198-278).    *)
(* fail names the external call that fails in this execution, if it is     *)
(* reached ("none": every call succeeds).  The result records the          *)
(* SubscriptionRequests created, the address lookups made, the messages    *)
(* posted, the return value and the exception raised ("" when the call     *)
(* returns).                                                               *)
(***************************************************************************)
ExternalCalls == {"mother_lookup", "address", "post", "household_lookup"}

CsrResult(subs, lookups, sent, ret, error) ==
    [subs |-> subs, lookups |-> lookups, sent |-> sent, ret |-> ret,
     error |-> error]

\* mutant of household_short_name: the mother's voice days and times
\* are passed on
household_short_name_mother_voice(registration) ==
    get_messageset_short_name(registration.stage, "household",
        registration.data["msg_type"], registration.data["preg_week"],
        get_voice_days_and_times(registration)[1],
        get_voice_days_and_times(registration)[2])

\* tasks.py:254-257  the household short name
household_short_name(registration) ==
    get_messageset_short_name(registration.stage, "household",
        registration.data["msg_type"], registration.data["preg_week"],
        "fri", "9_11")

\* mutant of csr_household: a failed household lookup removes the
\* mother's request again
csr_household_rollback(registration, fail, mother_sub, lookups, sent) ==
    IF fail = "household_lookup"
    THEN CsrResult(<<>>, lookups, sent, "", "ExternalError")
    ELSE CsrResult(<<mother_sub>>, lookups, sent,
                   "1 SubscriptionRequest created", "")

\* mutant of csr_household: the function returns before the household
\* request is written
csr_household_deferred(registration, fail, mother_sub, lookups, sent) ==
    IF registration.data["msg_receiver"] = "mother_only"
    THEN CsrResult(<<mother_sub>>, lookups, sent,
                   "1 SubscriptionRequest created", "")
    ELSE CsrResult(<<mother_sub>>, lookups, sent,
                   "2 SubscriptionRequests created", "")

\* tasks.py:248-278, entered after the mother's request was created
csr_household(registration, fail, mother_sub, lookups, sent) ==
    LET data == registration.data
    IN  IF ~Has(data, "msg_receiver")
        THEN CsrResult(<<mother_sub>>, lookups, sent, "", "KeyError")
        ELSE IF data["msg_receiver"] = "mother_only"
        THEN CsrResult(<<mother_sub>>, lookups, sent,
                       "1 SubscriptionRequest created", "")
        ELSE IF ~Has(data, "preg_week") /\ ~Has(data, "baby_age")
        THEN CsrResult(<<mother_sub>>, lookups, sent, "", "KeyError")
        ELSE IF ~Has(data, "preg_week")
        THEN CsrResult(<<mother_sub>>, lookups, sent, "", "KeyError")
        ELSE IF fail = "household_lookup"
        THEN CsrResult(<<mother_sub>>, lookups, sent, "", "ExternalError")
        ELSE LET weeks == data["preg_week"]
                 h == get_messageset_schedule_sequence(
                          household_short_name(registration), weeks)
                 household_sub ==
                     [identity |-> data["receiver_id"],
                      messageset |-> h.messageset,
                      next_sequence_number |-> h.next_sequence_number,
                      lang |-> data["language"],
                      schedule |-> h.schedule,
                      metadata |-> [prepend_next_delivery |->
                                       <<"welcome_household", data["language"]>>]]
             IN  CsrResult(<<mother_sub, household_sub>>, lookups, sent,
                           "2 SubscriptionRequests created", "")

\* mutant of mother_messageset: the short name is built for the household
\* recipient
mother_messageset_household(registration) ==
    get_messageset_schedule_sequence(
        get_messageset_short_name(registration.stage, "household",
            registration.data["msg_type"],
            get_weeks_pregnant_or_age(registration),
            get_voice_days_and_times(registration)[1],
            get_voice_days_and_times(registration)[2]),
        get_weeks_pregnant_or_age(registration))

\* tasks.py:203-212  the mother's message set, schedule and sequence number
mother_messageset(registration) ==
    LET voice == get_voice_days_and_times(registration)
        weeks == get_weeks_pregnant_or_age(registration)
        mother_short_name ==
            get_messageset_short_name(registration.stage, "mother",
                registration.data["msg_type"], weeks, voice[1], voice[2])
    IN  get_messageset_schedule_sequence(mother_short_name, weeks)

\* mutant of welcome_recipient: the text always goes to the mother
welcome_recipient_mother(registration) == registration.mother_id

\* tasks.py:232-238  the identity whose address the welcome text goes to
welcome_recipient(registration) ==
    IF registration.data["msg_receiver"] \in ONLY_RECEIVERS
    THEN registration.data["receiver_id"]
    ELSE registration.mother_id

create_subscriptionrequests(registration, fail) ==
    LET data == registration.data
        m == mother_messageset(registration)
        mother_sub(metadata) ==
            [identity |-> registration.mother_id,
             messageset |-> m.messageset,
             next_sequence_number |-> m.next_sequence_number,
             lang |-> data["language"],
             schedule |-> m.schedule,
             metadata |-> metadata]
    IN  IF fail = "mother_lookup"
        THEN CsrResult(<<>>, <<>>, <<>>, "", "ExternalError")
        ELSE IF Has(data, "voice_days") /\ data["voice_days"] # ""
        THEN csr_household(registration, fail,
                 mother_sub([prepend_next_delivery |->
                                <<"welcome_mother", data["language"]>>]),
                 <<>>, <<>>)
        ELSE IF ~Has(data, "msg_receiver")
        THEN CsrResult(<<>>, <<>>, <<>>, "", "KeyError")
        ELSE LET to_id == welcome_recipient(registration)
                 payload == [to_addr |-> to_id,
                             content |-> MOTHER_WELCOME_TEXT_NG_ENG]
             IN  IF fail = "address"
                 THEN CsrResult(<<>>, <<to_id>>, <<>>, "", "ExternalError")
                 ELSE IF fail = "post"
                 THEN CsrResult(<<>>, <<to_id>>, <<>>, "", "ExternalError")
                 ELSE csr_household(registration, fail,
                          mother_sub([x \in {} |-> TRUE]),
                          <<to_id>>, <<payload>>)

(***************************************************************************)
(* Input registrations.                                                    *)
(***************************************************************************)
Stages == {"prebirth", "postbirth", "loss", "public"}
Authorities == {"hw_full", "hw_limited", "patient", "advisor"}

\* utils.get_today() at the successive runs; the first is the date of the
\* tests (2015-08-17)
Todays == {[y |-> 2015, m |-> 8, d |-> 17], [y |-> 2015, m |-> 11, d |-> 30]}
FirstToday == [y |-> 2015, m |-> 8, d |-> 17]

\* "2015020" of REG_DATA["bad_fields"]: seven characters
SHORT_DATE == <<"2", "0", "1", "5", "0", "2", "0">>

\* last_period_date values: 28, 10 and 9 weeks before 2015-08-17, the too
\* long pregnancy of the tests, two strings that are no date, the 15, 30
\* and 40 weeks of the subscription tests, and 42 weeks
LmpValues ==
    {DateStr(2015, 2, 2), DateStr(2015, 6, 5), DateStr(2015, 6, 12),
     DateStr(2013, 1, 1), SHORT_DATE, DateStr(1983, 2, 29),
     DateStr(2015, 5, 4), DateStr(2015, 1, 19), DateStr(2014, 11, 10),
     DateStr(2014, 10, 27)}

\* baby_dob values: 28 and 0 weeks old on 2015-08-17, born the day after,
\* the too old baby of the tests, a string that is no date, and 52 weeks
DobValues ==
    {DateStr(2015, 2, 2), DateStr(2015, 8, 17), DateStr(2015, 8, 18),
     DateStr(2013, 7, 17), SHORT_DATE, DateStr(2014, 8, 18)}

ReceiverValues ==
    {"mother_only", "father_only", "friend_only", "family_only",
     "mother_father", "somebody"}

\* msg_type with the voice keys that accompany it
MsgPrefs ==
    {[msg_type |-> "text"],
     [msg_type |-> "text", voice_days |-> "", voice_times |-> ""],
     [msg_type |-> "audio", voice_days |-> "mon_wed", voice_times |-> "2_5"],
     [msg_type |-> "email"]}

\* a data mapping with every key the rules read, and one they ignore
FullData(msg_receiver, receiver_id) ==
    [receiver_id |-> receiver_id, operator_id |-> NURSE_ID,
     language |-> "eng_NG", msg_type |-> "text",
     last_period_date |-> DateStr(2015, 2, 2),
     baby_dob |-> DateStr(2015, 2, 2),
     msg_receiver |-> msg_receiver, loss_reason |-> "miscarriage",
     gravida |-> "1"]

FullKeys == DOMAIN FullData("mother_only", MOTHER_ID)

Registration(mother_id, stage, authority, data) ==
    [mother_id |-> mother_id, stage |-> stage, authority |-> authority,
     data |-> data, validated |-> FALSE]

\* every stage and authority, well-formed values, up to MaxMissing keys
\* of the full mapping absent; the receiver is the mother, somebody else,
\* or the one the identity checks reject
PresenceInputs ==
    {Registration(mother_id, stage, authority,
                  Without(FullData(rcv[1], rcv[2]), missing)) :
        mother_id \in {MOTHER_ID, SHORT_MOTHER_ID},
        stage \in Stages,
        authority \in Authorities,
        rcv \in {<<"mother_only", MOTHER_ID>>, <<"friend_only", FRIEND_ID>>,
                 <<"mother_father", FRIEND_ID>>,
                 <<"mother_only", FRIEND_ID>>, <<"friend_only", MOTHER_ID>>},
        missing \in {ks \in SUBSET FullKeys : Cardinality(ks) <= MaxMissing}}

GeneralValues ==
    {prefs @@ [receiver_id |-> receiver_id, operator_id |-> operator_id,
               language |-> language] :
        prefs \in MsgPrefs,
        receiver_id \in {MOTHER_ID, FRIEND_ID, BAD_ID},
        operator_id \in {NURSE_ID, BAD_ID},
        language \in {"eng_NG", "pidgin"}}

\* a matching stage and authority, every required key present, the values
\* drawn from valid and invalid ones
ValueInputs ==
    {Registration(MOTHER_ID, "prebirth", "hw_full",
                  g @@ [last_period_date |-> lmp, msg_receiver |-> rcv]) :
        g \in GeneralValues, lmp \in LmpValues, rcv \in ReceiverValues}
    \cup
    {Registration(MOTHER_ID, "postbirth", "hw_limited",
                  g @@ [baby_dob |-> dob, msg_receiver |-> rcv]) :
        g \in GeneralValues, dob \in DobValues, rcv \in ReceiverValues}
    \cup
    {Registration(MOTHER_ID, "loss", "patient",
                  g @@ [loss_reason |-> reason]) :
        g \in GeneralValues, reason \in {"miscarriage", "other"}}

InputRegistrations == PresenceInputs \cup ValueInputs

(***************************************************************************)
(* State.                                                                  *)
(***************************************************************************)
VARIABLES
    registration,           \* the stored Registration record
    today,                  \* utils.get_today()
    subscription_requests,  \* SubscriptionRequest.objects, in creation order
    address_lookups,        \* identities passed to get_identity_address
    outbound,               \* payloads passed to post_message
    runs,                   \* executions of the task so far
    last,                   \* outcome of the latest execution: what validate
                            \* returned, the status string run returned,
                            \* the exception raised, and what
                            \* create_subscriptionrequests returned
    csr_completed,          \* create_subscriptionrequests has returned
    validated_writes,       \* executions of registration.validated = True
    uuid_in,                \* an identifier handed to is_valid_uuid
    uuid_out,               \* <<>> before the call, <<its result>> after
    verify,                 \* the last verify_registration_schedule command
    conc_rows,              \* Registration.objects, by registration id
    conc_workers,           \* concurrent executions of the task, by id
    conc_sink               \* SubscriptionRequest.objects they append to

\* the state of the task and its stores
task_vars == <<registration, today, subscription_requests, address_lookups,
               outbound, runs, last, csr_completed, validated_writes>>

\* the state of a direct call of is_valid_uuid
uuid_vars == <<uuid_in, uuid_out>>

\* the state of the management command
verify_vars == <<verify>>

\* the state of concurrent executions for distinct registrations
conc_vars == <<conc_rows, conc_workers, conc_sink>>

vars == <<task_vars, uuid_vars, verify_vars, conc_vars>>

\* no execution yet
NoRun ==
    [reg_validates |-> FALSE, status |-> "", error |-> "", created |-> "",
     saves |-> 0, saved_last |-> TRUE]

\* no direct call of is_valid_uuid
NoUuidCall == uuid_in = <<>> /\ uuid_out = <<>>

\* a registration was created and the task has not run
TaskInit(registrations) ==
    /\ registration \in registrations
    /\ today = FirstToday
    /\ subscription_requests = <<>>
    /\ address_lookups = <<>>
    /\ outbound = <<>>
    /\ runs = 0
    /\ last = NoRun
    /\ csr_completed = FALSE
    /\ validated_writes = 0

\* the management command was not run
NoVerify ==
    [n |-> 0, message_set |-> "", fix |-> FALSE, scope |-> "", error |-> ""]

\* no concurrent executions
NoConcurrency ==
    conc_rows = <<>> /\ conc_workers = <<>> /\ conc_sink = <<>>

Init ==
    /\ TaskInit(InputRegistrations)
    /\ NoUuidCall
    /\ verify = NoVerify
    /\ NoConcurrency

\* what Registration.objects holds after validate: the last record saved
Stored(v, before) ==
    IF v.saved = <<>> THEN before ELSE v.saved[Len(v.saved)]

(***************************************************************************)
(* ValidateRegistration.run (tasks.py:280-296): one execution of the task  *)
(* on the registration, fail naming the external call that fails.          *)
(***************************************************************************)
\* nothing created, nothing raised
NoRequests == CsrResult(<<>>, <<>>, <<>>, "", "")

\* mutant of subscribe: branches on the stored validated flag instead of
\* the value validate returned
subscribe_on_flag(v, fail) ==
    IF v.error = "" /\ v.registration.validated
    THEN create_subscriptionrequests(v.registration, fail)
    ELSE NoRequests

\* tasks.py:290-291  if reg_validates: self.create_subscriptionrequests(...)
subscribe(v, fail) ==
    IF v.error = "" /\ v.ret
    THEN create_subscriptionrequests(v.registration, fail)
    ELSE NoRequests

\* mutant of validation_string: the else branch appends "Success" too
validation_string_always_success(reg_validates) ==
    "Validation completed - "
        \o (IF reg_validates THEN "Success" ELSE "Success")

\* tasks.py:289-294  the status string built from reg_validates
validation_string(reg_validates) ==
    "Validation completed - "
        \o (IF reg_validates THEN "Success" ELSE "Failure")

\* the state after validate returned v and the subscription step c
run_outcome(v, c) ==
    /\ registration' = Stored(v, registration)
    /\ validated_writes' =
           validated_writes + (IF v.set_validated THEN 1 ELSE 0)
    /\ subscription_requests' = subscription_requests \o c.subs
    /\ address_lookups' = address_lookups \o c.lookups
    /\ outbound' = outbound \o c.sent
    /\ csr_completed' =
           (csr_completed \/ (v.error = "" /\ v.ret /\ c.error = ""))
    /\ last' = [reg_validates |-> (v.error = "" /\ v.ret),
                status |-> IF v.error = "" /\ c.error = ""
                           THEN validation_string(v.ret) ELSE "",
                error |-> IF v.error # "" THEN v.error ELSE c.error,
                created |-> c.ret,
                saves |-> Len(v.saved),
                saved_last |-> (Stored(v, v.registration) = v.registration)]

run_validated(v, fail) == run_outcome(v, subscribe(v, fail))

run(fail) ==
    /\ runs < MaxRuns
    /\ runs' = runs + 1
    /\ run_validated(validate(registration, today), fail)
    /\ UNCHANGED <<today, uuid_vars, verify_vars, conc_vars>>

Run == \E fail \in ExternalCalls \cup {"none"} : run(fail)

\* time passes between two executions
AdvanceToday ==
    /\ \E t \in Todays : Ordinal(t) > Ordinal(today) /\ today' = t
    /\ UNCHANGED <<registration, subscription_requests, address_lookups,
                   outbound, runs, last, csr_completed, validated_writes>>
    /\ UNCHANGED <<uuid_vars, verify_vars, conc_vars>>

Next == Run \/ AdvanceToday

Spec == Init /\ [][Next]_vars

(***************************************************************************)
(* is_valid_uuid called on its own (tests.py:653-660): the identifiers     *)
(* vary in length, in the characters at offsets 14 and 19 and in the       *)
(* other characters.                                                       *)
(***************************************************************************)
IdLengths == {35, 36, 37}
IdTags == {"m", "4", "a"}
IdVersions == {"4", "1", "a"}
IdVariants == {"a", "b", "8", "9", "c", "4"}

IdInputs ==
    {MkId(tag, n, c14, c19) :
        tag \in IdTags, n \in IdLengths, c14 \in IdVersions,
        c19 \in IdVariants}

UuidInit ==
    /\ TaskInit({Registration(MOTHER_ID, "prebirth", "hw_full",
                              FullData("mother_only", MOTHER_ID))})
    /\ uuid_in \in IdInputs
    /\ uuid_out = <<>>
    /\ verify = NoVerify
    /\ NoConcurrency

CallIsValidUuid ==
    /\ uuid_out = <<>>
    /\ uuid_out' = <<is_valid_uuid(uuid_in)>>
    /\ UNCHANGED <<uuid_in, task_vars, verify_vars, conc_vars>>

UuidNext == CallIsValidUuid

UuidSpec == UuidInit /\ [][UuidNext]_vars

(***************************************************************************)
(* Properties.                                                             *)
(***************************************************************************)
\* a step that is one execution of the task
(***************************************************************************)
(* The management command verify_registration_schedule                     *)
(* (management/commands/verify_registration_schedule.py), run between      *)
(* executions of the task on the same registration.                        *)
(***************************************************************************)
MaxVerifies == 2

\* the positional argument message_set (choices)
MessageSets == {"mother", "household"}

\* the stage based messaging service as the command finds it: url or
\* token not set, subscriptions exist for the mother, the message set
\* lookup fails, or no subscriptions and the lookup succeeds
SbmStates == {"unset", "subscribed", "lookup_failed", "ok"}

\* Registration.get_subscription_requests takes no message set; the
\* requests of the registration are those addressed to its mother_id or
\* every request created for it
RequestScopes == {"mother_id", "registration"}

\* Registration.get_subscription_requests: the positions of the requests
\* of the registration in the store
get_subscription_requests(reg, requests, scope) ==
    IF scope = "mother_id"
    THEN {i \in DOMAIN requests :
             requests[i].identity = reg.mother_id}
    ELSE DOMAIN requests

\* Registration.estimate_current_preg_weeks(today)
estimate_current_preg_weeks(reg, t) ==
    calc_pregnancy_week_lmp(t, reg.data["last_period_date"])

\* handle, lines 84-93: the sequence number of the selected message set
verify_next_sequence_number(reg, message_set, t) ==
    LET weeks_estimate == estimate_current_preg_weeks(reg, t)
        voice == get_voice_days_and_times(reg)
        mother_short_name ==
            get_messageset_short_name(reg.stage, message_set,
                reg.data["msg_type"], weeks_estimate,
                voice[1], voice[2])
    IN  get_messageset_schedule_sequence(mother_short_name, weeks_estimate)
            .next_sequence_number

\* handle, lines 95-108: the loop over the requests of the registration
verify_requests(requests, selected, next_sequence_number, apply_fix) ==
    [i \in DOMAIN requests |->
        IF /\ i \in selected
           /\ requests[i].next_sequence_number # next_sequence_number
           /\ apply_fix
        THEN [requests[i] EXCEPT
                 !.next_sequence_number = next_sequence_number]
        ELSE requests[i]]

\* Command.handle: the store after the command, and the error it raised
handle(reg, message_set, apply_fix, t, sbm, scope, requests) ==
    IF sbm \in {"unset", "subscribed"}
    THEN [requests |-> requests, error |-> "CommandError"]
    ELSE IF get_subscription_requests(reg, requests, scope) = {}
    THEN [requests |-> requests, error |-> "CommandError"]
    ELSE IF sbm = "lookup_failed"
    THEN [requests |-> requests, error |-> "ExternalError"]
    ELSE [requests |->
              verify_requests(requests,
                  get_subscription_requests(reg, requests, scope),
                  verify_next_sequence_number(reg, message_set, t),
                  apply_fix),
          error |-> ""]

verify_registration_schedule(message_set, apply_fix, sbm, scope) ==
    /\ verify.n < MaxVerifies
    /\ LET done == handle(registration, message_set, apply_fix, today, sbm,
                          scope, subscription_requests)
       IN  /\ subscription_requests' = done.requests
           /\ verify' = [n |-> verify.n + 1, message_set |-> message_set,
                         fix |-> apply_fix, scope |-> scope,
                         error |-> done.error]
    /\ UNCHANGED <<registration, today, address_lookups, outbound, runs,
                   last, csr_completed, validated_writes, uuid_vars,
                   conc_vars>>

Verify ==
    \E message_set \in MessageSets, apply_fix \in BOOLEAN,
       sbm \in SbmStates, scope \in RequestScopes :
        verify_registration_schedule(message_set, apply_fix, sbm, scope)

\* prebirth registrations the task accepts: text and audio, 15 and 30
\* weeks pregnant on the first date, the household receiver absent,
\* somebody else, or the mother herself
VerifyRegistrations ==
    {Registration(MOTHER_ID, "prebirth", "hw_full",
         prefs @@ [receiver_id |-> rcv[2], operator_id |-> NURSE_ID,
                   language |-> "eng_NG", last_period_date |-> lmp,
                   msg_receiver |-> rcv[1]]) :
        prefs \in {[msg_type |-> "text"],
                   [msg_type |-> "audio", voice_days |-> "mon_wed",
                    voice_times |-> "2_5"]},
        lmp \in {DateStr(2015, 5, 4), DateStr(2015, 1, 19)},
        rcv \in {<<"mother_only", MOTHER_ID>>, <<"friend_only", FRIEND_ID>>,
                 <<"mother_father", MOTHER_ID>>}}

VerifyInit ==
    /\ TaskInit(VerifyRegistrations)
    /\ NoUuidCall
    /\ verify = NoVerify
    /\ NoConcurrency

VerifyNext == Run \/ AdvanceToday \/ Verify

VerifySpec == VerifyInit /\ [][VerifyNext]_vars

(***************************************************************************)
(* Concurrent executions of ValidateRegistration.run (tasks.py:280-296)    *)
(* for distinct registrations on one worker pool.  An execution is cut at  *)
(* its accesses to the stores: Registration.objects.get, validate with its *)
(* registration.save(), and the two SubscriptionRequest.objects.create.    *)
(***************************************************************************)
MaxConcurrent == 2

\* the ids of the registrations, one execution each
Rids == 1..MaxConcurrent

\* a text registration for the mother alone, one with a friend, a
\* postbirth one for mother and father, and one with a short mother_id
ConcRegistrations ==
    {Registration(MOTHER_ID, "prebirth", "hw_full",
                  FullData("mother_only", MOTHER_ID)),
     Registration(MOTHER_ID, "prebirth", "hw_full",
                  FullData("friend_only", FRIEND_ID)),
     Registration(MOTHER_ID, "postbirth", "hw_limited",
                  FullData("mother_father", FRIEND_ID)),
     Registration(SHORT_MOTHER_ID, "prebirth", "hw_full",
                  FullData("mother_only", SHORT_MOTHER_ID))}

\* the external call that fails in an execution
ConcFailures == {"none", "household_lookup"}

\* the local variable registration before Registration.objects.get
NoLocal == [id |-> 0]

ConcInit ==
    /\ TaskInit({Registration(MOTHER_ID, "prebirth", "hw_full",
                              FullData("mother_only", MOTHER_ID))})
    /\ NoUuidCall
    /\ verify = NoVerify
    /\ conc_rows \in [Rids -> ConcRegistrations]
    /\ \E fails \in [Rids -> ConcFailures] :
          conc_workers =
             [r \in Rids |-> [pc |-> "get", local |-> NoLocal,
                              fail |-> fails[r], input |-> conc_rows[r]]]
    /\ conc_sink = <<>>

\* mutant of conc_bind: the registration is kept in an attribute of the
\* task object, which the executions of a worker share
conc_bind_task_attribute(workers, rid, record) ==
    [w \in DOMAIN workers |->
        [workers[w] EXCEPT !.local = record,
                           !.pc = IF w = rid THEN "validate" ELSE @]]

\* tasks.py:286  registration = Registration.objects.get(...): the record
\* is bound to a local variable of the execution
conc_bind(workers, rid, record) ==
    [workers EXCEPT ![rid].local = record, ![rid].pc = "validate"]

\* tasks.py:286
ConcGet(rid) ==
    /\ conc_workers[rid].pc = "get"
    /\ conc_workers' =
          conc_bind(conc_workers, rid, [id |-> rid, reg |-> conc_rows[rid]])
    /\ UNCHANGED <<conc_rows, conc_sink, task_vars, uuid_vars, verify_vars>>

\* the position after validate returned v
after_validate(v) ==
    IF v.error # "" THEN "raised"
    ELSE IF v.ret THEN "mother" ELSE "returned"

\* tasks.py:287  reg_validates = self.validate(registration), with the
\* registration.save() of its branch: the row of the local record's id
ConcValidate(rid) ==
    /\ conc_workers[rid].pc = "validate"
    /\ LET mine == conc_workers[rid].local
           v == validate(mine.reg, today)
       IN  /\ conc_rows' =
                 [conc_rows EXCEPT ![mine.id] = Stored(v, conc_rows[mine.id])]
           /\ conc_workers' =
                 [conc_workers EXCEPT
                     ![rid].local = [id |-> mine.id, reg |-> v.registration],
                     ![rid].pc = after_validate(v)]
    /\ UNCHANGED <<conc_sink, task_vars, uuid_vars, verify_vars>>

\* the position after the mother's part of create_subscriptionrequests,
\* c being what the whole call does
after_mother(c) ==
    IF Len(c.subs) = 2 THEN "household"
    ELSE IF c.error = "" THEN "returned" ELSE "raised"

\* the requests an execution appends, tagged with the execution
conc_created(rid, subs) == [i \in DOMAIN subs |-> [run |-> rid, request |-> subs[i]]]

\* tasks.py:203-246  up to SubscriptionRequest.objects.create(**mother_sub)
ConcMother(rid) ==
    /\ conc_workers[rid].pc = "mother"
    /\ LET c == create_subscriptionrequests(conc_workers[rid].local.reg,
                                            conc_workers[rid].fail)
       IN  /\ conc_sink' =
                 conc_sink \o conc_created(rid, SubSeq(c.subs, 1, 1))
           /\ conc_workers' =
                 [conc_workers EXCEPT ![rid].pc = after_mother(c)]
    /\ UNCHANGED <<conc_rows, task_vars, uuid_vars, verify_vars>>

\* tasks.py:248-276  SubscriptionRequest.objects.create(**household_sub)
ConcHousehold(rid) ==
    /\ conc_workers[rid].pc = "household"
    /\ LET c == create_subscriptionrequests(conc_workers[rid].local.reg,
                                            conc_workers[rid].fail)
       IN  conc_sink' = conc_sink \o conc_created(rid, SubSeq(c.subs, 2, 2))
    /\ conc_workers' = [conc_workers EXCEPT ![rid].pc = "returned"]
    /\ UNCHANGED <<conc_rows, task_vars, uuid_vars, verify_vars>>

ConcNext ==
    \E rid \in Rids :
        \/ ConcGet(rid)
        \/ ConcValidate(rid)
        \/ ConcMother(rid)
        \/ ConcHousehold(rid)

ConcSpec == ConcInit /\ [][ConcNext]_vars

RunStep == runs' = runs + 1

\* C1: whenever run returns, it returns exactly "Validation completed -
\* Success" if validate returned True and exactly "Validation completed -
\* Failure" if validate returned False; an execution that raises returns
\* no status string, and no other string is ever returned.
C1_StatusString ==
    runs > 0 =>
        /\ last.status \in {"", "Validation completed - Success",
                            "Validation completed - Failure"}
        /\ (last.error = "" =>
               last.status = IF last.reg_validates
                             THEN "Validation completed - Success"
                             ELSE "Validation completed - Failure")
        /\ (last.error # "" => last.status = "")

\* a run whose validation failed (after an earlier one that succeeded)
\* returned the Failure string
C1_Witness ==
    /\ runs = 2
    /\ ~last.reg_validates
    /\ last.status = "Validation completed - Failure"
    /\ csr_completed

\* C2: an execution whose validation fails creates no SubscriptionRequest,
\* looks up no address and posts no message.
C2_FailureHasNoEffects ==
    [][(RunStep /\ ~last'.reg_validates) =>
          /\ subscription_requests' = subscription_requests
          /\ address_lookups' = address_lookups
          /\ outbound' = outbound]_vars

\* a failed validation in a state that already holds requests and messages
C2_Witness ==
    /\ runs > 0
    /\ last.status = "Validation completed - Failure"
    /\ subscription_requests # <<>>
    /\ outbound # <<>>

\* C3: validated is true iff create_subscriptionrequests has run to
\* completion for the registration.
C3_ValidatedIffSubscribed == registration.validated <=> csr_completed

\* C4: an execution on a registration that is already validated and
\* subscribed creates no further SubscriptionRequest and posts no further
\* welcome message.
C4_RerunCreatesNothing ==
    [][(RunStep /\ registration.validated /\ csr_completed) =>
          /\ subscription_requests' = subscription_requests
          /\ outbound' = outbound]_vars

\* C5: validated never reverts once true, and once it is true no execution
\* assigns it again.
C5_ValidatedSetOnce ==
    [][registration.validated =>
          /\ registration'.validated
          /\ validated_writes' = validated_writes]_vars

(***************************************************************************)
(* The rules of validation as the specification states them, written       *)
(* without the operators of validate.                                      *)
(***************************************************************************)
\* length 36, '4' at offset 14, one of a, b, 8, 9 at offset 19
WellFormedId(id) ==
    Len(id) = 36 /\ id[15] = "4" /\ id[20] \in {"a", "b", "8", "9"}

\* the registration breaks one of the two identity constraints
BreaksIdentityConstraint(r) ==
    /\ "msg_receiver" \in DOMAIN r.data
    /\ "receiver_id" \in DOMAIN r.data
    /\ \/ /\ r.data["msg_receiver"]
                \in {"father_only", "friend_only", "family_only"}
          /\ r.data["receiver_id"] = r.mother_id
       \/ /\ r.data["msg_receiver"] = "mother_only"
          /\ r.data["receiver_id"] # r.mother_id

\* the required fields of the rule of a stage
RequiredFields(stage) ==
    {"receiver_id", "operator_id", "language", "msg_type"} \cup
    (CASE stage = "prebirth" -> {"last_period_date", "msg_receiver"}
       [] stage = "postbirth" -> {"baby_dob", "msg_receiver"}
       [] stage = "loss" -> {"loss_reason"}
       [] OTHER -> {})

\* the (stage, authority) pair is in the table and the data holds every
\* required field of its rule
MatchesRule(r) ==
    /\ <<r.stage, r.authority>> \in
          ({"prebirth", "postbirth"} \X {"hw_full", "hw_limited"})
             \cup ({"loss"} \X {"patient", "advisor"})
    /\ RequiredFields(r.stage) \subseteq DOMAIN r.data

\* the entry a required field contributes to invalid_fields at date t:
\* its name when its validator fails, "<name> out of range" when a date
\* parses but lies outside the week range, nothing when it passes
ExpectedEntry(f, d, t) ==
    CASE f \in {"receiver_id", "operator_id"} ->
            IF WellFormedId(d[f]) THEN {} ELSE {f}
      [] f = "language" -> IF d[f] \in LANGUAGES THEN {} ELSE {f}
      [] f = "msg_type" -> IF d[f] \in MSG_TYPES THEN {} ELSE {f}
      [] f = "msg_receiver" -> IF d[f] \in RECEIVER_TYPES THEN {} ELSE {f}
      [] f = "loss_reason" ->
            IF d[f] \in {"miscarriage", "stillborn", "baby_died"}
            THEN {} ELSE {f}
      [] f = "last_period_date" ->
            IF ~is_valid_date(d[f]) THEN {f}
            ELSE IF calc_pregnancy_week_lmp(t, d[f])
                       \in PREBIRTH_MIN_WEEKS..PREBIRTH_MAX_WEEKS
                 THEN {} ELSE {"last_period_date out of range"}
      [] f = "baby_dob" ->
            IF ~is_valid_date(d[f]) THEN {f}
            ELSE IF calc_baby_age(t, d[f])
                       \in POSTBIRTH_MIN_WEEKS..POSTBIRTH_MAX_WEEKS
                 THEN {} ELSE {"baby_dob out of range"}

ExpectedEntries(r, t) ==
    UNION {ExpectedEntry(f, r.data, t) : f \in RequiredFields(r.stage)}

\* the keys validate writes on success
OutputKeys == {"reg_type", "preg_week", "baby_age"}

\* C6: if mother_id is not a valid identifier, validate writes
\* invalid_fields = "Invalid UUID mother_id" and nothing else, leaves
\* validated false and returns False (run returns the Failure string),
\* whatever the rest of the registration holds: no other rule is evaluated.
C6_InvalidMotherId ==
    [][(RunStep /\ ~WellFormedId(registration.mother_id)) =>
          /\ registration' =
                [registration EXCEPT
                    !.data = Put(registration.data, "invalid_fields",
                                 [type |-> "str",
                                  value |-> "Invalid UUID mother_id"])]
          /\ ~registration'.validated
          /\ ~last'.reg_validates
          /\ last'.status = "Validation completed - Failure"]_vars

\* an invalid mother_id on a registration whose other fields would make the
\* identity check read an absent receiver_id
C6_Witness ==
    /\ runs > 0
    /\ registration.mother_id = SHORT_MOTHER_ID
    /\ "msg_receiver" \in DOMAIN registration.data
    /\ "receiver_id" \notin DOMAIN registration.data
    /\ registration.data["invalid_fields"] =
           [type |-> "str", value |-> "Invalid UUID mother_id"]

\* C7: with a valid mother_id, a registration with msg_receiver in
\* {father_only, friend_only, family_only} and receiver_id equal to
\* mother_id is rejected with "mother requires own id"; one with
\* msg_receiver = mother_only and receiver_id different from mother_id is
\* rejected with "mother_id should be the same as receiver_id"; and no
\* registration breaking either constraint is ever marked validated.
C7_IdentityConstraint ==
    [][/\ (BreaksIdentityConstraint(registration') =>
              ~registration'.validated)
       /\ (/\ RunStep
           /\ WellFormedId(registration.mother_id)
           /\ BreaksIdentityConstraint(registration)) =>
              /\ ~last'.reg_validates
              /\ last'.status = "Validation completed - Failure"
              /\ registration'.data["invalid_fields"] =
                    [type |-> "str",
                     value |-> IF registration.data["msg_receiver"]
                                     = "mother_only"
                               THEN "mother_id should be the same as receiver_id"
                               ELSE "mother requires own id"]]_vars

\* a family_only registration whose receiver is the mother was rejected
C7_Witness ==
    /\ runs > 0
    /\ WellFormedId(registration.mother_id)
    /\ "msg_receiver" \in DOMAIN registration.data
    /\ registration.data["msg_receiver"] = "family_only"
    /\ "receiver_id" \in DOMAIN registration.data
    /\ registration.data["receiver_id"] = registration.mother_id
    /\ registration.data["invalid_fields"] =
           [type |-> "str", value |-> "mother requires own id"]

\* C8: with a valid mother_id and no identity constraint broken, a
\* registration is matched to a rule (accepted, or given a list of failing
\* fields) only if its (stage, authority) pair is in the table and its
\* data holds every required field of that rule, extra keys ignored; and
\* when no rule matches (stage public, a wrong authority, a missing
\* required field) the result is invalid_fields = "Invalid combination of
\* fields" with validated left false.
C8_NoRuleMatches ==
    [][(/\ RunStep
        /\ WellFormedId(registration.mother_id)
        /\ ~BreaksIdentityConstraint(registration)) =>
           /\ (\/ last'.reg_validates
               \/ /\ "invalid_fields" \in DOMAIN registration'.data
                  /\ registration'.data["invalid_fields"].type = "list")
                 => MatchesRule(registration)
           /\ ~MatchesRule(registration) =>
                 /\ "invalid_fields" \in DOMAIN registration'.data
                 /\ registration'.data["invalid_fields"] =
                       [type |-> "str",
                        value |-> "Invalid combination of fields"]
                 /\ ~registration'.validated]_vars

\* C9: for a matched rule, invalid_fields holds the entry of every
\* required field that fails (all of them), "<field> out of range" for a
\* date that parses but lies outside its week range, and validation
\* succeeds exactly when no required field fails.
C9_AllFailuresCollected ==
    [][(/\ RunStep
        /\ WellFormedId(registration.mother_id)
        /\ ~BreaksIdentityConstraint(registration)
        /\ MatchesRule(registration)) =>
           /\ last'.reg_validates
                 <=> (ExpectedEntries(registration, today) = {})
           /\ ExpectedEntries(registration, today) # {} =>
                 registration'.data["invalid_fields"] =
                    [type |-> "list",
                     value |-> ExpectedEntries(registration, today)]]_vars

\* three fields failed at once, one of them a date out of range
C9_Witness ==
    /\ runs > 0
    /\ "invalid_fields" \in DOMAIN registration.data
    /\ registration.data["invalid_fields"].type = "list"
    /\ Cardinality(registration.data["invalid_fields"].value) >= 3
    /\ "last_period_date out of range"
          \in registration.data["invalid_fields"].value

\* C10: on an unvalidated registration, if validate returns True then
\* validated is true and reg_type is hw_pre with preg_week (prebirth),
\* hw_post with baby_age (postbirth) or pbl_loss (loss); if it returns
\* False then invalid_fields is written, validated is still false and
\* reg_type, preg_week and baby_age are not written.
C10_ValidateOutputs ==
    [][(RunStep /\ ~registration.validated) =>
          /\ last'.reg_validates =>
                /\ registration'.validated
                /\ "reg_type" \in DOMAIN registration'.data
                /\ \/ /\ registration.stage = "prebirth"
                      /\ registration'.data["reg_type"] = "hw_pre"
                      /\ "preg_week" \in DOMAIN registration'.data
                      /\ registration'.data["preg_week"] \in Nat
                   \/ /\ registration.stage = "postbirth"
                      /\ registration'.data["reg_type"] = "hw_post"
                      /\ "baby_age" \in DOMAIN registration'.data
                      /\ registration'.data["baby_age"] \in Nat
                   \/ /\ registration.stage = "loss"
                      /\ registration'.data["reg_type"] = "pbl_loss"
          /\ (~last'.reg_validates /\ last'.error = "") =>
                /\ "invalid_fields" \in DOMAIN registration'.data
                /\ ~registration'.validated
                /\ OutputKeys \cap DOMAIN registration'.data = {}]_vars

\* a postbirth registration was validated and baby_age written
C10_Witness ==
    /\ runs > 0
    /\ registration.validated
    /\ registration.stage = "postbirth"
    /\ registration.data["reg_type"] = "hw_post"
    /\ "baby_age" \in DOMAIN registration.data
    /\ "invalid_fields" \notin DOMAIN registration.data

\* the other required fields of the rule all pass their validators
OthersPass(r, t, date_field) ==
    \A f \in RequiredFields(r.stage) \ {date_field} :
        ExpectedEntry(f, r.data, t) = {}

\* C11: the week ranges are inclusive at both ends: a matched prebirth
\* registration whose other fields pass validates exactly when its
\* last_period_date is a date and 10 <= pregnancy weeks <= 42 (9 weeks
\* fails, 10 succeeds), a matched postbirth one exactly when its baby_dob
\* is a date and 0 <= baby age <= 52, and a baby_dob after today (age -1)
\* is rejected.
C11_InclusiveWeekRanges ==
    [][(/\ RunStep
        /\ WellFormedId(registration.mother_id)
        /\ ~BreaksIdentityConstraint(registration)
        /\ MatchesRule(registration)) =>
           /\ (/\ registration.stage = "prebirth"
               /\ OthersPass(registration, today, "last_period_date")) =>
                  (last'.reg_validates <=>
                      /\ is_valid_date(registration.data["last_period_date"])
                      /\ 10 <= calc_pregnancy_week_lmp(today,
                                   registration.data["last_period_date"])
                      /\ calc_pregnancy_week_lmp(today,
                             registration.data["last_period_date"]) <= 42)
           /\ (/\ registration.stage = "postbirth"
               /\ OthersPass(registration, today, "baby_dob")) =>
                  (last'.reg_validates <=>
                      /\ is_valid_date(registration.data["baby_dob"])
                      /\ 0 <= calc_baby_age(today,
                                  registration.data["baby_dob"])
                      /\ calc_baby_age(today,
                             registration.data["baby_dob"]) <= 52)
           /\ (/\ registration.stage = "postbirth"
               /\ is_valid_date(registration.data["baby_dob"])
               /\ Ordinal(ParseDate(registration.data["baby_dob"]))
                     > Ordinal(today)) =>
                  /\ ~last'.reg_validates
                  /\ ~registration'.validated]_vars

\* a pregnancy of exactly 10 weeks was accepted
C11_Witness ==
    /\ runs > 0
    /\ last.reg_validates
    /\ registration.stage = "prebirth"
    /\ registration.data["preg_week"] = 10

\* the SubscriptionRequests, address lookups and messages of this step
NewRequests ==
    SubSeq(subscription_requests', Len(subscription_requests) + 1,
           Len(subscription_requests'))

NewOutbound == SubSeq(outbound', Len(outbound) + 1, Len(outbound'))

NewLookups ==
    SubSeq(address_lookups', Len(address_lookups) + 1, Len(address_lookups'))

\* C12: when no external call fails, create_subscriptionrequests creates
\* exactly one SubscriptionRequest (identity mother_id, lang
\* data.language) and returns "1 SubscriptionRequest created" when
\* msg_receiver is mother_only, and for every other msg_receiver exactly
\* two (mother_id, then data.receiver_id, both with lang data.language)
\* and returns "2 SubscriptionRequests created".
C12_RequestCount ==
    [][(/\ RunStep
        /\ last'.reg_validates
        /\ last'.error # "ExternalError"
        /\ "msg_receiver" \in DOMAIN registration.data) =>
           IF registration.data["msg_receiver"] = "mother_only"
           THEN /\ Len(NewRequests) = 1
                /\ NewRequests[1].identity = registration.mother_id
                /\ NewRequests[1].lang = registration.data["language"]
                /\ last'.created = "1 SubscriptionRequest created"
           ELSE /\ Len(NewRequests) = 2
                /\ NewRequests[1].identity = registration.mother_id
                /\ NewRequests[2].identity = registration.data["receiver_id"]
                /\ NewRequests[1].lang = registration.data["language"]
                /\ NewRequests[2].lang = registration.data["language"]
                /\ last'.created = "2 SubscriptionRequests created"]_vars

\* data declares voice days
DeclaresVoiceDays(r) ==
    "voice_days" \in DOMAIN r.data /\ r.data["voice_days"] # ""

StageWeeks(r) ==
    IF r.stage = "prebirth" THEN r.data["preg_week"] ELSE r.data["baby_age"]

SequenceFixtures ==
    {<<15, 3, 15>>, <<15, 2, 10>>, <<15, 1, 5>>, <<30, 3, 60>>,
     <<30, 1, 20>>, <<40, 3, 90>>, <<40, 1, 30>>}

C18_ExternalFailureLeavesUnvalidated ==
    [][(/\ RunStep
        /\ ~registration.validated
        /\ last'.error = "ExternalError") =>
           /\ last'.status = ""
           /\ ~registration'.validated]_vars

\* C19: a run in which an external call fails returns no status string
\* and rolls nothing back: what was created before stays, and when the
\* failure comes after the welcome text (the household lookups) the
\* mother's SubscriptionRequest and the text are in place, with no
\* household request.
C19_NoRollback ==
    [][(RunStep /\ last'.error = "ExternalError") =>
          /\ last'.status = ""
          /\ SubSeq(subscription_requests', 1, Len(subscription_requests))
                = subscription_requests
          /\ SubSeq(outbound', 1, Len(outbound)) = outbound
          /\ (NewOutbound # <<>> \/ NewRequests # <<>>) =>
                /\ Len(NewRequests) = 1
                /\ NewRequests[1].identity = registration.mother_id
                /\ NewRequests[1].messageset[2] = "mother"
                /\ Len(NewOutbound) =
                      IF DeclaresVoiceDays(registration) THEN 0 ELSE 1]_vars

\* the household lookup failed on a friend_only registration: the
\* mother's request and the welcome text are there, the run raised
C19_Witness ==
    /\ runs = 1
    /\ last.error = "ExternalError"
    /\ last.status = ""
    /\ "msg_receiver" \in DOMAIN registration.data
    /\ registration.data["msg_receiver"] = "friend_only"
    /\ Len(subscription_requests) = 1
    /\ subscription_requests[1].identity = registration.mother_id
    /\ Len(outbound) = 1

\* C20: validation never crashes on malformed stored data: every run on
\* which validate does not return True (in particular one whose data holds
\* msg_receiver but no receiver_id) ends with validate returning False, a
\* reason recorded in invalid_fields and run returning "Validation
\* completed - Failure" rather than raising.
C20_ValidateNeverRaises ==
    [][(RunStep /\ ~last'.reg_validates) =>
          /\ last'.error = ""
          /\ last'.status = "Validation completed - Failure"
          /\ "invalid_fields" \in DOMAIN registration'.data]_vars

\* C21: is_valid_uuid(v) is true if and only if v has length 36, its
\* character at offset 14 is '4' and its character at offset 19 is one
\* of a, b, 8, 9; it is false for every identifier whose length is not
\* 36, and no other character of v influences the result.
C21_UuidValidity ==
    uuid_out # <<>> =>
        /\ uuid_out[1] =
              (/\ Len(uuid_in) = 36
               /\ uuid_in[15] = "4"
               /\ uuid_in[20] \in {"a", "b", "8", "9"})
        /\ (Len(uuid_in) # 36 => uuid_out[1] = FALSE)
        /\ \A other \in IdInputs :
              (/\ Len(other) = Len(uuid_in)
               /\ other[15] = uuid_in[15]
               /\ other[20] = uuid_in[20]) =>
                  is_valid_uuid(other) = uuid_out[1]

\* an identifier of 36 characters that starts with '4' and carries a
\* '4' at offset 19 was rejected
C21_Witness ==
    /\ uuid_out = <<FALSE>>
    /\ Len(uuid_in) = 36
    /\ uuid_in[1] = "4"
    /\ uuid_in[15] = "4"
    /\ uuid_in[20] = "4"

\* C22: every execution of validate() persists the registration exactly
\* once, whichever branch is taken, and that single save happens after all
\* mutations of data and validated made by that execution (the record
\* saved is the record validate() ends with).
C22_SavedExactlyOnce ==
    [][RunStep => (last'.saves = 1 /\ last'.saved_last)]_vars

\* C23: whenever run() returns "Validation completed - Success", every
\* SubscriptionRequest the registration calls for (one for mother_only,
\* two otherwise) has already been written by that run: success is never
\* reported before all SubscriptionRequest writes of the run are visible.
C23_SuccessAfterWrites ==
    [][(RunStep /\ last'.status = "Validation completed - Success") =>
          /\ "msg_receiver" \in DOMAIN registration.data
          /\ Len(NewRequests) =
                (IF registration.data["msg_receiver"] = "mother_only"
                 THEN 1 ELSE 2)]_vars

\* a run for a father_only registration reported success with the
\* mother's and the father's requests in the store
C23_Witness ==
    /\ runs = 1
    /\ last.status = "Validation completed - Success"
    /\ "msg_receiver" \in DOMAIN registration.data
    /\ registration.data["msg_receiver"] = "father_only"
    /\ Len(subscription_requests) = 2
    /\ subscription_requests[2].identity = registration.data["receiver_id"]

\* C25: for every registration on which validate() returns true (prebirth,
\* postbirth and loss rules alike), if every external lookup and dispatch
\* succeeds then run() terminates by returning "Validation completed -
\* Success" with at least one SubscriptionRequest created, without
\* raising; in particular for a loss registration whose data has no
\* msg_receiver key.
C25_ValidRunSucceeds ==
    [][(/\ RunStep
        /\ last'.reg_validates
        /\ last'.error # "ExternalError") =>
           /\ last'.error = ""
           /\ last'.status = "Validation completed - Success"
           /\ NewRequests # <<>>]_vars

\* C26: for a registration with msg_receiver other than mother_only, the
\* household short name and the household sequence number are both
\* derived from the week value relevant to the stage, preg_week for
\* prebirth and baby_age for postbirth: a validated prebirth or postbirth
\* registration gets its household SubscriptionRequest created, with the
\* message set of the stage's week value and the sequence number that
\* message set has at that week value.
C26_HouseholdFromStageWeeks ==
    [][(/\ RunStep
        /\ last'.reg_validates
        /\ last'.error # "ExternalError"
        /\ registration.stage \in {"prebirth", "postbirth"}
        /\ registration.data["msg_receiver"] # "mother_only") =>
           /\ Len(NewRequests) = 2
           /\ NewRequests[2].messageset =
                 get_messageset_short_name(registration.stage, "household",
                     "audio", StageWeeks(registration'), "fri", "9_11")
           /\ NewRequests[2].next_sequence_number =
                 get_messageset_schedule_sequence(NewRequests[2].messageset,
                     StageWeeks(registration')).next_sequence_number]_vars

\* C27: whenever one run creates two SubscriptionRequests, their
\* identities are distinct (the household request is never addressed to
\* the mother herself), for every msg_receiver value that passes
\* validation.
C27_DistinctIdentities ==
    [][(RunStep /\ Len(NewRequests) = 2) =>
          NewRequests[1].identity # NewRequests[2].identity]_vars

\* C28: in every state reachable by any sequence of validation runs on a
\* registration, validated = true implies that data holds no
\* invalid_fields entry: a registration is never simultaneously marked
\* validated and carrying a failure reason.
C28_ValidatedHasNoFailureReason ==
    registration.validated => "invalid_fields" \notin DOMAIN registration.data

\* the reason the identity checks give for a registration that breaks one
IdentityReason(r) ==
    IF r.data["msg_receiver"] = "mother_only"
    THEN "mother_id should be the same as receiver_id"
    ELSE "mother requires own id"

\* C29: failure reasons have a fixed precedence. A run that rejects a
\* registration writes exactly one reason: "Invalid UUID mother_id" when
\* mother_id is invalid, whatever else is wrong; otherwise the identity
\* reason when an identity constraint is broken, even when no rule
\* matches the stage, authority and fields; and "Invalid combination of
\* fields" or a list of fields only when mother_id is valid and no
\* identity constraint is broken.
C29_ReasonPrecedence ==
    [][(RunStep /\ ~last'.reg_validates /\ last'.error = "") =>
          LET reason == registration'.data["invalid_fields"]
          IN  /\ "invalid_fields" \in DOMAIN registration'.data
              /\ reason.type \in {"str", "list"}
              /\ (~WellFormedId(registration.mother_id) =>
                     reason = [type |-> "str",
                               value |-> "Invalid UUID mother_id"])
              /\ (/\ WellFormedId(registration.mother_id)
                  /\ BreaksIdentityConstraint(registration)) =>
                     reason = [type |-> "str",
                               value |-> IdentityReason(registration)]
              /\ (\/ reason.type = "list"
                  \/ reason = [type |-> "str",
                               value |-> "Invalid combination of fields"]) =>
                     /\ WellFormedId(registration.mother_id)
                     /\ ~BreaksIdentityConstraint(registration)
              /\ (reason.type = "str" =>
                     reason.value \in
                        {"Invalid UUID mother_id", "mother requires own id",
                         "mother_id should be the same as receiver_id",
                         "Invalid combination of fields"})]_vars

\* a registration that matches no rule (a required field is missing) and
\* breaks an identity constraint was rejected with the identity reason
C29_Witness ==
    /\ runs = 1
    /\ WellFormedId(registration.mother_id)
    /\ ~MatchesRule(registration)
    /\ BreaksIdentityConstraint(registration)
    /\ "invalid_fields" \in DOMAIN registration.data
    /\ registration.data["invalid_fields"] =
          [type |-> "str", value |-> IdentityReason(registration)]

\* a step of the verify_registration_schedule command
VerifyStep == verify'.n = verify.n + 1

\* C30: the verify_registration_schedule command modifies a
\* SubscriptionRequest only when --fix is given and its stored
\* next_sequence_number differs from the value computed for the selected
\* message set; without --fix, or when the command aborts, no
\* SubscriptionRequest is changed; a --fix run changes only the requests
\* of the selected message set, and a second identical --fix run changes
\* nothing.
C30_VerifyFrame ==
    [][VerifyStep =>
          /\ Len(subscription_requests') = Len(subscription_requests)
          /\ \A i \in DOMAIN subscription_requests :
                subscription_requests'[i] # subscription_requests[i] =>
                   /\ verify'.fix
                   /\ verify'.error = ""
                   /\ subscription_requests[i].next_sequence_number #
                         subscription_requests'[i].next_sequence_number
                   /\ subscription_requests'[i].next_sequence_number =
                         verify_next_sequence_number(registration,
                             verify'.message_set, today)
                   /\ subscription_requests[i].messageset[2] =
                         verify'.message_set
          /\ (verify'.fix /\ verify'.error = "") =>
                \A i \in get_subscription_requests(registration,
                              subscription_requests', verify'.scope) :
                   subscription_requests'[i].next_sequence_number =
                      verify_next_sequence_number(registration,
                          verify'.message_set, today)]_vars

\* the execution of a registration has ended, by return or by exception
ConcEnded(rid) == conc_workers[rid].pc \in {"returned", "raised"}

\* the requests in the store that one execution created, in order
RECURSIVE RequestsOf(_, _)
RequestsOf(rid, sink) ==
    IF sink = <<>> THEN <<>>
    ELSE (IF sink[1].run = rid THEN <<sink[1].request>> ELSE <<>>)
            \o RequestsOf(rid, Tail(sink))

\* what an execution running alone leaves: the stored record and the
\* requests created
AloneRow(input, t) == Stored(validate(input, t), input)

AloneRequests(input, fail, t) ==
    LET v == validate(input, t)
    IN  IF v.error = "" /\ v.ret
        THEN create_subscriptionrequests(v.registration, fail).subs
        ELSE <<>>

\* C24: runs for distinct registrations do not interfere: under any
\* interleaving of their steps, each registration ends with the same
\* data, validated flag and SubscriptionRequests as if its run had
\* executed alone.
C24_NoInterference ==
    \A rid \in DOMAIN conc_workers :
        ConcEnded(rid) =>
            /\ conc_rows[rid] = AloneRow(conc_workers[rid].input, today)
            /\ RequestsOf(rid, conc_sink) =
                  AloneRequests(conc_workers[rid].input,
                                conc_workers[rid].fail, today)

\* two executions have ended and their requests alternate in the store
C24_Witness ==
    /\ conc_workers # <<>>
    /\ \A rid \in DOMAIN conc_workers : ConcEnded(rid)
    /\ Len(conc_sink) = 4
    /\ conc_sink[1].run # conc_sink[2].run
    /\ conc_sink[2].run # conc_sink[3].run
    /\ conc_rows[1].validated
    /\ conc_rows[2].validated

====
